---- MODULE Spec2Model ----
(***************************************************************************)
(* NM Spartans statistics dashboard (src/main.py): the per-season loader   *)
(* load_data (column disambiguation, numeric coercion, derived rates,      *)
(* season aggregation), the rule-based get_development_feedback, the       *)
(* player history of the Player Analysis view and the radar normalisation. *)
(*                                                                         *)
(* Numbers are exact rationals [n, d] with d > 0; d = 0 stands for a value *)
(* that is not a number (NaN, or the result of a division by zero).        *)
(* A pandas row is a function from column names to numbers; a column that  *)
(* the row lacks is outside its DOMAIN.                                    *)
(***************************************************************************)
EXTENDS Integers, Sequences, FiniteSets, TLC

VARIABLES
    phase,          \* position of the single-record pipeline
    raw,            \* one coerced row of a season's frame (before line 62)
    others,         \* columns that the other loaded seasons' frames carry
    row,            \* the row as it stands in the combined frame
    feedback,       \* the list get_development_feedback returned
    raised,         \* TRUE when the call ended in a KeyError instead
    parse,          \* position of the parser of one export
    header,         \* the field-name row of the export (row 1 of the file)
    cells,          \* one data row of the export, a cell per column
    columns,        \* df.columns
    values,         \* the data row as the frame holds it
    load,           \* position of load_data and of the view that follows it
    files,          \* the export of each season the loop has passed, as found on disk
    season_i,       \* index of the season the loop of line 22 is at
    combined_data,  \* the frames appended so far (line 84)
    errors,         \* the seasons st.error was called for (line 86)
    df,             \* the frame load_data returned
    selected_player,
    player_stats,   \* line 335
    view,           \* the view that drew its radar charts
    charts          \* r_theta and r_values of each chart drawn

recordVars == <<phase, raw, others, row, feedback, raised>>
parseVars == <<parse, header, cells, columns, values>>
loadVars == <<load, files, season_i, combined_data, errors, df, selected_player, player_stats>>
radarVars == <<view, charts>>
vars == <<recordVars, parseVars, loadVars, radarVars>>

(***************************************************************************)
(* Exact arithmetic on the values of a frame.                              *)
(***************************************************************************)
RECURSIVE GCD(_, _)
GCD(a, b) == IF b = 0 THEN a ELSE GCD(b, a % b)

Abs(x) == IF x < 0 THEN -x ELSE x

Q(n, d) ==
    IF d = 0 THEN [n |-> 0, d |-> 0]
    ELSE LET g == GCD(Abs(n), Abs(d))
             s == IF d < 0 THEN -1 ELSE 1
         IN  [n |-> s * (n \div g), d |-> s * (d \div g)]

NaN == [n |-> 0, d |-> 0]
QI(n) == Q(n, 1)
Th(n) == Q(n, 1000)

IsNum(a) == a.d > 0
Gt(a, b) == IsNum(a) /\ IsNum(b) /\ a.n * b.d > b.n * a.d
Lt(a, b) == Gt(b, a)
Ge(a, b) == IsNum(a) /\ IsNum(b) /\ a.n * b.d >= b.n * a.d
Eq(a, b) == IsNum(a) /\ IsNum(b) /\ a.n * b.d = b.n * a.d
Add(a, b) == IF IsNum(a) /\ IsNum(b) THEN Q(a.n * b.d + b.n * a.d, a.d * b.d) ELSE NaN
Sub(a, b) == IF IsNum(a) /\ IsNum(b) THEN Q(a.n * b.d - b.n * a.d, a.d * b.d) ELSE NaN
Mul(a, b) == IF IsNum(a) /\ IsNum(b) THEN Q(a.n * b.n, a.d * b.d) ELSE NaN
Div(a, b) == IF IsNum(a) /\ IsNum(b) /\ b.n # 0 THEN Q(a.n * b.d, a.d * b.n) ELSE NaN

\* row[k] where the read is known not to raise; row.get(k, dflt)
Val(r, k) == IF k \in DOMAIN r THEN r[k] ELSE NaN
Get(r, k, dflt) == IF k \in DOMAIN r THEN r[k] ELSE dflt

(***************************************************************************)
(* load_data, lines 62-79: the four derived rates of one row.              *)
(***************************************************************************)
\* the strikeout rate without its PA > 0 guard
SOPctUnguarded(x) == Mul(Div(Val(x, "SO"), Val(x, "PA")), QI(100))

\* the rate as a fraction of 1 instead of a percentage
SOPctFraction(x) ==
    IF Gt(Val(x, "PA"), QI(0)) THEN Div(Val(x, "SO"), Val(x, "PA")) ELSE QI(0)

\* line 63
SOPct(x) ==
    IF Gt(Val(x, "PA"), QI(0))
    THEN Mul(Div(Val(x, "SO"), Val(x, "PA")), QI(100))
    ELSE QI(0)

calc_cs_pct(x) ==
    IF "SB_Catch" \in DOMAIN x /\ "CS_Catch" \in DOMAIN x
    THEN LET total_attempts == Add(x["SB_Catch"], x["CS_Catch"])
         IN  IF Gt(total_attempts, QI(0))
             THEN Mul(Div(x["CS_Catch"], total_attempts), QI(100))
             ELSE QI(0)
    ELSE QI(0)

PBIC(x) ==
    IF Gt(Val(x, "INN_Catch"), QI(0))
    THEN Div(Val(x, "PB"), Val(x, "INN_Catch"))
    ELSE QI(0)

EDenominator(x) == Add(Add(Val(x, "E"), Get(x, "A", QI(0))), Get(x, "PO", QI(0)))

EPct(x) ==
    IF Gt(EDenominator(x), QI(0))
    THEN Mul(Div(Val(x, "E"), EDenominator(x)), QI(100))
    ELSE QI(0)

\* the columns the four lambdas read with x[...]: a missing one is a KeyError,
\* which load_data's except turns into a skipped season
DeriveRaises(x) ==
    \/ "PA" \notin DOMAIN x
    \/ Gt(Val(x, "PA"), QI(0)) /\ "SO" \notin DOMAIN x
    \/ "INN_Catch" \notin DOMAIN x
    \/ Gt(Val(x, "INN_Catch"), QI(0)) /\ "PB" \notin DOMAIN x
    \/ "E" \notin DOMAIN x

DerivedColumns == {"SO%", "CS%_Catch", "PBIC", "E%"}

Derive(x) ==
    [k \in DOMAIN x \cup DerivedColumns |->
        CASE k = "SO%" -> SOPct(x)
          [] k = "CS%_Catch" -> calc_cs_pct(x)
          [] k = "PBIC" -> PBIC(x)
          [] k = "E%" -> EPct(x)
          [] OTHER -> x[k]]

\* pd.concat, line 89: a row gets NaN in every column that only other frames have
ConcatFill(x, cols) == [k \in DOMAIN x \cup cols |-> IF k \in DOMAIN x THEN x[k] ELSE NaN]

(***************************************************************************)
(* get_development_feedback, lines 93-157.                                 *)
(***************************************************************************)
Entry(title, vals) == [title |-> title, vals |-> vals]

Raise == [raised |-> TRUE, fb |-> <<>>]

\* a first-match engine: a rule is skipped once an earlier one has fired
RuleFirstMatch(st, r, guardReads, fires, msgReads, entry) ==
    IF st.raised THEN st
    ELSE IF ~(guardReads \subseteq DOMAIN r) THEN Raise
    ELSE IF ~fires \/ st.fb # <<>> THEN st
    ELSE IF ~(msgReads \subseteq DOMAIN r) THEN Raise
    ELSE [st EXCEPT !.fb = Append(@, entry)]

\* one `if guard: feedback.append(...)`: the columns the guard reads, whether it
\* holds, the columns the message reads, and the entry appended
Rule(st, r, guardReads, fires, msgReads, entry) ==
    IF st.raised THEN st
    ELSE IF ~(guardReads \subseteq DOMAIN r) THEN Raise
    ELSE IF ~fires THEN st
    ELSE IF ~(msgReads \subseteq DOMAIN r) THEN Raise
    ELSE [st EXCEPT !.fb = Append(@, entry)]

\* row['BA/RISP'] < (row['AVG'] - 0.050), line 114, in double precision: for
\* these averages (in thousandths) the difference rounds above the decimal
\* value, so a BA/RISP of exactly AVG - .050 compares below it
SubRoundsUp ==
    {68, 69, 70, 101, 136, 137, 138, 139, 140, 168, 169, 170, 171, 191, 192, 193,
     194, 195, 196, 197, 198, 199, 200, 201, 202, 203, 254, 255, 256, 257, 258,
     259, 260, 261, 262, 263, 264, 265, 266, 267, 268, 269, 270, 271, 272, 273,
     274, 275, 276, 277, 278, 279, 280, 281, 332, 333, 334, 335, 336, 337, 338,
     339, 340, 341, 342, 343, 394, 395, 396, 397, 398, 399, 400, 401, 402, 403,
     404, 405, 406, 457, 458, 459, 460, 461, 462, 463, 464, 465, 466, 467, 468,
     519, 520, 521, 522, 523, 524, 525, 526, 527, 528, 529, 530, 531, 532, 533,
     534, 535, 536, 537, 538, 539, 540, 541, 542, 543, 544, 545, 546, 547, 548, 549}

BelowAvgMinus50(risp, avg) ==
    \/ Lt(risp, Sub(avg, Th(50)))
    \/ Eq(risp, Sub(avg, Th(50))) /\ \E a \in SubRoundsUp : avg = Th(a)

\* a limit of one strikeout looking in ten plate appearances
LookingLimitTenth(pa) == Mul(pa, Q(1, 10))

\* row['PA'] * 0.07, line 119
LookingLimit(pa) == Mul(pa, Q(7, 100))

BattingFeedback(st, r) ==
    IF st.raised THEN st
    ELSE IF "PA" \notin DOMAIN r THEN Raise
    ELSE IF ~Gt(r["PA"], QI(10)) THEN st
    ELSE
    LET s1 == Rule(st, r, {"SO%"}, Gt(Val(r, "SO%"), QI(25)), {"SO", "PA"},
                   Entry("High Strikeout Rate", <<Div(Val(r, "SO"), Val(r, "PA"))>>))
        s2 == Rule(s1, r, {"QAB%"}, Lt(Val(r, "QAB%"), QI(40)), {"QAB%"},
                   Entry("Quality At-Bats", <<Val(r, "QAB%")>>))
        s3 == Rule(s2, r,
                   IF Lt(Val(r, "SLG"), Val(r, "OBP")) THEN {"SLG", "OBP", "AVG"}
                                                     ELSE {"SLG", "OBP"},
                   Lt(Val(r, "SLG"), Val(r, "OBP")) /\ Gt(Val(r, "AVG"), Th(250)),
                   {}, Entry("Power Potential", <<>>))
        s4 == Rule(s3, r,
                   IF "BA/RISP" \in DOMAIN r THEN {"BA/RISP", "AVG"} ELSE {},
                   "BA/RISP" \in DOMAIN r
                       /\ BelowAvgMinus50(Val(r, "BA/RISP"), Val(r, "AVG")),
                   {"BA/RISP", "AVG"},
                   Entry("Mental Game", <<Val(r, "BA/RISP"), Val(r, "AVG")>>))
        s5 == Rule(s4, r, {"K-L", "PA"},
                   Gt(Val(r, "K-L"), LookingLimit(Val(r, "PA"))), {"K-L", "PA"},
                   Entry("Overly Cautious at the Plate",
                         <<Div(Val(r, "K-L"), Val(r, "PA"))>>))
    IN  s5

FieldingFeedback(st, r) ==
    IF st.raised THEN st
    ELSE IF "TC" \notin DOMAIN r THEN Raise
    ELSE IF ~Gt(r["TC"], QI(50)) THEN st
    ELSE
    LET s1 == Rule(st, r, {"FPCT"}, Lt(Val(r, "FPCT"), Th(850)), {"FPCT"},
                   Entry("Fielding Fundamentals", <<Val(r, "FPCT")>>))
        s2 == Rule(s1, r, {"E%"}, Gt(Val(r, "E%"), QI(5)), {"E%"},
                   Entry("Error Reduction", <<Val(r, "E%")>>))
    IN  s2

PitchingFeedback(st, r) ==
    IF st.raised THEN st
    ELSE IF "IP" \notin DOMAIN r THEN Raise
    ELSE IF ~Gt(r["IP"], QI(5)) THEN st
    ELSE
    LET s1 == Rule(st, r, {"BB", "IP"}, Gt(Val(r, "BB"), Val(r, "IP")), {"BB", "IP"},
                   Entry("Pitching Control", <<Div(Val(r, "BB"), Val(r, "IP"))>>))
        s2 == Rule(s1, r, {"WHIP"}, Gt(Val(r, "WHIP"), Q(18, 10)), {},
                   Entry("Run Prevention", <<>>))
    IN  s2

CatchingFeedback(st, r) ==
    IF st.raised THEN st
    ELSE IF ~("INN_Catch" \in DOMAIN r /\ Gt(r["INN_Catch"], QI(5))) THEN st
    ELSE
    LET total_attempts == Add(Get(r, "SB_Catch", QI(0)), Get(r, "CS_Catch", QI(0)))
        s1 == Rule(st, r, {"PB", "INN_Catch"},
                   Gt(Val(r, "PB"), Mul(Val(r, "INN_Catch"), Q(2, 10))),
                   {"PB", "INN_Catch"},
                   Entry("Catcher Blocking", <<Val(r, "PB"), Val(r, "INN_Catch")>>))
        s2 == Rule(s1, r,
                   IF Ge(total_attempts, QI(5)) THEN {"CS%_Catch"} ELSE {},
                   Ge(total_attempts, QI(5)) /\ Lt(Val(r, "CS%_Catch"), QI(10)),
                   {"CS%_Catch"},
                   Entry("Catcher Throwing", <<Val(r, "CS%_Catch")>>))
    IN  s2

OnTrack == Entry("On Track", <<>>)

\* the fallback appended without looking at the list
FallbackAlways(st) ==
    IF st.raised THEN st ELSE [st EXCEPT !.fb = Append(@, OnTrack)]

Fallback(st) ==
    IF st.raised THEN st
    ELSE IF st.fb = <<>> THEN [st EXCEPT !.fb = <<OnTrack>>]
    ELSE st

get_development_feedback(r) ==
    Fallback(
        CatchingFeedback(
            PitchingFeedback(
                FieldingFeedback(
                    BattingFeedback([raised |-> FALSE, fb |-> <<>>], r), r), r), r))

(***************************************************************************)
(* The rows the single-record pipeline is run on.  Every value sits on or  *)
(* next to the threshold of the rule that reads it.  Rates are written in  *)
(* thousandths (AVG .300 is 300), counts as integers; RISP = -1 stands for *)
(* an export without the BA/RISP column.                                   *)
(***************************************************************************)
BattingGrid ==
    [PA : {10, 20}, SO : {5, 6}, QAB : {39, 40}, SLG : {300, 350}, OBP : {350},
     AVG : {250, 300}, RISP : {-1, 200, 250}, KL : {1, 2}]

FieldingGrid == [TC : {50, 51}, FPCT : {849, 850}, E : {1}, A : {9}, PO : {0, 10}]

PitchingGrid == [IP : {5, 6}, BB : {6, 7}, BBP : {0, 7}, WHIP : {1800, 1900}]

CatchingGrid == [INN : {5, 10}, PB : {2, 3}, SB : {4, 5}, CS : {0, 1}]

\* per group: every rule fires / the same values below the group requirement /
\* nothing recorded
BatFire == [PA |-> 20, SO |-> 6, QAB |-> 39, SLG |-> 300, OBP |-> 350, AVG |-> 300,
            RISP |-> 200, KL |-> 2]
BatOff == [BatFire EXCEPT !.PA = 10]
BatZero == [PA |-> 0, SO |-> 0, QAB |-> 0, SLG |-> 0, OBP |-> 0, AVG |-> 0,
            RISP |-> 0, KL |-> 0]
FldFire == [TC |-> 51, FPCT |-> 849, E |-> 1, A |-> 9, PO |-> 0]
FldOff == [FldFire EXCEPT !.TC = 50]
FldZero == [TC |-> 0, FPCT |-> 0, E |-> 0, A |-> 0, PO |-> 0]
PitFire == [IP |-> 6, BB |-> 7, BBP |-> 7, WHIP |-> 1900]
PitOff == [PitFire EXCEPT !.IP = 5]
PitZero == [IP |-> 0, BB |-> 0, BBP |-> 0, WHIP |-> 0]
\* a hitter who draws walks and has never pitched
PitNever == [IP |-> 0, BB |-> 7, BBP |-> 0, WHIP |-> 0]
CatFire == [INN |-> 10, PB |-> 3, SB |-> 5, CS |-> 0]
CatOff == [CatFire EXCEPT !.INN = 5]
CatZero == [INN |-> 0, PB |-> 0, SB |-> 0, CS |-> 0]

\* BA/RISP exactly .050 under AVG, nothing else at its threshold
BatEdge == [PA |-> 20, SO |-> 5, QAB |-> 40, SLG |-> 350, OBP |-> 350, AVG |-> 260,
            RISP |-> 210, KL |-> 1]

\* a hitter who strikes out often, also looking, and hits worse with runners
\* in scoring position
BatStruggling == [PA |-> 50, SO |-> 20, QAB |-> 20, SLG |-> 300, OBP |-> 350,
                  AVG |-> 260, RISP |-> 150, KL |-> 5]

\* eleven plate appearances, every other batting value on its threshold or
\* next to it
BatBoundary ==
    [PA : {11}, SO : {2, 3}, QAB : {40}, SLG : {350}, OBP : {350}, AVG : {260},
     RISP : {-1, 210, 211, 260}, KL : {0}]

BatCorners == {BatFire, BatOff, BatZero, BatEdge, BatStruggling}
FldCorners == {FldFire, FldOff, FldZero}
PitCorners == {PitFire, PitOff, PitZero, PitNever}
CatCorners == {CatFire, CatOff, CatZero}

MkRow(b, f, p, c) ==
    (IF b.RISP < 0 THEN <<>> ELSE "BA/RISP" :> Th(b.RISP))
    @@ [k \in {"PA", "SO", "QAB%", "SLG", "OBP", "AVG", "K-L"} |->
           CASE k = "PA" -> QI(b.PA) [] k = "SO" -> QI(b.SO) [] k = "QAB%" -> QI(b.QAB)
             [] k = "SLG" -> Th(b.SLG) [] k = "OBP" -> Th(b.OBP)
             [] k = "AVG" -> Th(b.AVG) [] k = "K-L" -> QI(b.KL)]
    @@ [k \in {"TC", "FPCT", "E", "A", "PO"} |->
           CASE k = "TC" -> QI(f.TC) [] k = "FPCT" -> Th(f.FPCT) [] k = "E" -> QI(f.E)
             [] k = "A" -> QI(f.A) [] k = "PO" -> QI(f.PO)]
    @@ [k \in {"IP", "BB", "BB_Pitch", "WHIP"} |->
           CASE k = "IP" -> QI(p.IP) [] k = "BB" -> QI(p.BB)
             [] k = "BB_Pitch" -> QI(p.BBP) [] k = "WHIP" -> Th(p.WHIP)]
    @@ [k \in {"INN_Catch", "PB", "SB_Catch", "CS_Catch"} |->
           CASE k = "INN_Catch" -> QI(c.INN) [] k = "PB" -> QI(c.PB)
             [] k = "SB_Catch" -> QI(c.SB) [] k = "CS_Catch" -> QI(c.CS)]

FullRows ==
    {MkRow(b, f, p, c) : b \in BattingGrid, f \in {FldFire, FldOff},
                         p \in {PitFire, PitOff}, c \in {CatFire, CatOff}}
    \cup {MkRow(b, f, p, c) : b \in {BatFire, BatOff}, f \in FieldingGrid,
                              p \in PitchingGrid, c \in CatchingGrid}
    \cup {MkRow(b, f, p, c) : b \in BatCorners, f \in FldCorners,
                              p \in PitCorners, c \in CatCorners}
    \cup {MkRow(b, FldZero, PitZero, c) : b \in BatBoundary, c \in {CatZero, CatOff}}

\* exports that lack a section's columns
MissingColumns ==
    {{"TC", "FPCT", "A", "PO"}, {"IP", "WHIP", "BB_Pitch"}, {"QAB%", "K-L"},
     {"BA/RISP"}, {"SB_Catch", "CS_Catch"}, {"SLG", "OBP", "AVG", "BA/RISP"},
     {"SO"}, {"PB"}, {"PA"}}

Drop(x, cols) == [k \in DOMAIN x \ cols |-> x[k]]

CornerRows ==
    {MkRow(b, f, p, c) : b \in BatCorners, f \in {FldFire, FldZero},
                         p \in {PitFire, PitZero}, c \in {CatFire, CatZero}}

PartialRows == {Drop(x, m) : x \in CornerRows, m \in MissingColumns}

(***************************************************************************)
(* One record through load_data and the Player Analysis view:              *)
(* derivation (lines 62-79), concatenation (line 89), feedback (line 360). *)
(***************************************************************************)
RecordIdle ==
    /\ phase = "idle" /\ raw = <<>> /\ others = {} /\ row = <<>>
    /\ feedback = <<>> /\ raised = FALSE

ParseIdle ==
    /\ parse = "idle" /\ header = <<>> /\ cells = <<>> /\ columns = <<>> /\ values = <<>>

LoadIdle ==
    /\ load = "idle" /\ files = <<>> /\ season_i = 0 /\ combined_data = <<>>
    /\ errors = <<>> /\ df = <<>> /\ selected_player = "" /\ player_stats = <<>>

RadarIdle == view = "none" /\ charts = <<>>

InitRecord ==
    /\ ParseIdle
    /\ LoadIdle
    /\ RadarIdle
    /\ phase = "coerced"
    /\ \/ raw \in FullRows /\ others = {}
       \/ raw \in PartialRows /\ others \in {{}, UNION MissingColumns}
    /\ row = <<>>
    /\ feedback = <<>>
    /\ raised = FALSE

\* lines 62-84: the season's frame gets its derived columns, or the season is
\* skipped by the except of line 85
DeriveMetrics ==
    /\ phase = "coerced"
    /\ IF DeriveRaises(raw)
       THEN phase' = "skipped" /\ row' = row
       ELSE phase' = "derived" /\ row' = Derive(raw)
    /\ UNCHANGED <<raw, others, feedback, raised, parseVars, loadVars, radarVars>>

\* lines 88-89
Concat ==
    /\ phase = "derived"
    /\ phase' = "combined"
    /\ row' = ConcatFill(row, others)
    /\ UNCHANGED <<raw, others, feedback, raised, parseVars, loadVars, radarVars>>

\* line 360: feedback_items = get_development_feedback(latest)
GetFeedback ==
    /\ phase = "combined"
    /\ LET res == get_development_feedback(row)
       IN  feedback' = res.fb /\ raised' = res.raised
    /\ phase' = "done"
    /\ UNCHANGED <<raw, others, row, parseVars, loadVars, radarVars>>

NextRecord == DeriveMetrics \/ Concat \/ GetFeedback

SpecRecord == InitRecord /\ [][NextRecord]_vars

(***************************************************************************)
(* The parser of one export, load_data lines 29-57: read_csv with its      *)
(* numbering of repeated field names, the rename, the numeric coercion.    *)
(***************************************************************************)
\* lines 14-18: the keys of `files`, in the order the dict declares them
SeasonLabels ==
    <<"NM Spartans 11U Fall 2024", "NM Spartans 11U Spring 2025",
      "NM Spartans 12U Fall 2025">>

MaxCols == 3

FieldNames == {"BB", "SO", "H", "R", "SB", "CS", "PIK", "INN", "PB", "First"}

\* pandas' name of the (k+1)-th column called base: base, base.1, base.2, ...
Dotted(base, k) ==
    CASE k = 0 -> base
      [] k = 1 ->
        (CASE base = "BB" -> "BB.1"
           [] base = "SO" -> "SO.1"
           [] base = "H" -> "H.1"
           [] base = "R" -> "R.1"
           [] base = "SB" -> "SB.1"
           [] base = "CS" -> "CS.1"
           [] base = "PIK" -> "PIK.1"
           [] base = "INN" -> "INN.1"
           [] base = "PB" -> "PB.1"
           [] base = "First" -> "First.1")
      [] k = 2 ->
        (CASE base = "BB" -> "BB.2"
           [] base = "SO" -> "SO.2"
           [] base = "H" -> "H.2"
           [] base = "R" -> "R.2"
           [] base = "SB" -> "SB.2"
           [] base = "CS" -> "CS.2"
           [] base = "PIK" -> "PIK.2"
           [] base = "INN" -> "INN.2"
           [] base = "PB" -> "PB.2"
           [] base = "First" -> "First.2")
      [] k = 3 ->
        (CASE base = "BB" -> "BB.3"
           [] base = "SO" -> "SO.3"
           [] base = "H" -> "H.3"
           [] base = "R" -> "R.3"
           [] base = "SB" -> "SB.3"
           [] base = "CS" -> "CS.3"
           [] base = "PIK" -> "PIK.3"
           [] base = "INN" -> "INN.3"
           [] base = "PB" -> "PB.3"
           [] base = "First" -> "First.3")
      [] k = 4 ->
        (CASE base = "BB" -> "BB.4"
           [] base = "SO" -> "SO.4"
           [] base = "H" -> "H.4"
           [] base = "R" -> "R.4"
           [] base = "SB" -> "SB.4"
           [] base = "CS" -> "CS.4"
           [] base = "PIK" -> "PIK.4"
           [] base = "INN" -> "INN.4"
           [] base = "PB" -> "PB.4"
           [] base = "First" -> "First.4")

\* how many of the columns before position j carry the name of column j
Earlier(h, j) == Cardinality({i \in 1..(j - 1) : h[i] = h[j]})

\* line 29: df.columns after pd.read_csv(filename, header=1)
read_csv_columns(h) == [j \in 1..Len(h) |-> Dotted(h[j], Earlier(h, j))]

\* the rename with the pitching and catching suffixes exchanged
rename_map_swapped ==
    [c \in {"BB.1", "SO.1", "H.1", "R.1", "SB.1", "CS.1", "PIK.1",
            "SB.2", "CS.2", "PIK.2", "INN", "PB"} |->
        CASE c = "BB.1" -> "BB_Pitch" [] c = "SO.1" -> "SO_Pitch"
          [] c = "H.1" -> "H_Pitch" [] c = "R.1" -> "R_Pitch"
          [] c = "SB.1" -> "SB_Catch" [] c = "CS.1" -> "CS_Catch"
          [] c = "PIK.1" -> "PIK_Catch"
          [] c = "SB.2" -> "SB_Pitch" [] c = "CS.2" -> "CS_Pitch"
          [] c = "PIK.2" -> "PIK_Pitch"
          [] c = "INN" -> "INN_Catch" [] c = "PB" -> "PB"]

\* lines 33-41
rename_map ==
    [c \in {"BB.1", "SO.1", "H.1", "R.1", "SB.1", "CS.1", "PIK.1",
            "SB.2", "CS.2", "PIK.2", "INN", "PB"} |->
        CASE c = "BB.1" -> "BB_Pitch" [] c = "SO.1" -> "SO_Pitch"
          [] c = "H.1" -> "H_Pitch" [] c = "R.1" -> "R_Pitch"
          [] c = "SB.1" -> "SB_Pitch" [] c = "CS.1" -> "CS_Pitch"
          [] c = "PIK.1" -> "PIK_Pitch"
          [] c = "SB.2" -> "SB_Catch" [] c = "CS.2" -> "CS_Catch"
          [] c = "PIK.2" -> "PIK_Catch"
          [] c = "INN" -> "INN_Catch" [] c = "PB" -> "PB"]

\* line 42: df.rename(columns=rename_map)
Rename(cols) ==
    [j \in 1..Len(cols) |->
        IF cols[j] \in DOMAIN rename_map THEN rename_map[cols[j]] ELSE cols[j]]

\* lines 48-53
cols_to_numeric ==
    {"AVG", "OBP", "SLG", "OPS", "PA", "AB", "H", "1B", "2B", "3B", "HR", "BB", "SO",
     "QAB%", "K-L", "ERA", "WHIP", "IP", "TC", "A", "PO", "FPCT", "E", "BA/RISP", "SB",
     "INN_Catch", "PB", "SB_Catch", "CS_Catch", "BB_Pitch", "SO_Pitch", "H_Pitch",
     "R_Pitch"}

\* line 56
IsCoerced(col) ==
    col \in cols_to_numeric \/ col \notin {"Number", "Last", "First", "Season", "Full Name"}

\* a cell of the file: a number, or a text that is no number ("" is a blank cell)
NumCell(v) == [num |-> TRUE, v |-> v, txt |-> ""]
TextCell(t) == [num |-> FALSE, v |-> 0, txt |-> t]

\* line 29: the strings pd.read_csv reads as a missing value by default
na_values ==
    {"", "#N/A", "#N/A N/A", "#NA", "-1.#IND", "-1.#QNAN", "-NaN", "-nan", "1.#IND",
     "1.#QNAN", "<NA>", "N/A", "NA", "NULL", "NaN", "None", "n/a", "nan", "null"}

\* line 29: a cell as read_csv puts it into the frame; a missing value is the
\* blank cell
read_csv_cell(cell) ==
    IF ~cell.num /\ cell.txt \in na_values THEN TextCell("") ELSE cell

\* line 57: pd.to_numeric(..., errors='coerce').fillna(0) on one cell
to_numeric_fillna(cell) == IF cell.num THEN QI(cell.v) ELSE QI(0)

Coerce(cols, vals) ==
    [j \in 1..Len(cols) |-> IF IsCoerced(cols[j]) THEN to_numeric_fillna(vals[j]) ELSE vals[j]]

Headers == UNION {[1..n -> FieldNames] : n \in 1..MaxCols}

\* the cell of column j holds the number j, except one cell that may hold a
\* text: a missing-value marker or a word
CellRows(n) ==
    {[j \in 1..n |-> IF j = t THEN TextCell(w) ELSE NumCell(j)] :
        t \in 0..n, w \in {"n/a", "Al"}}

\* line 45: df['Season'] = season_name, a new last column, or the column of
\* that name overwritten
SetColumn(cols, vals, name, cell) ==
    IF \E j \in 1..Len(cols) : cols[j] = name
    THEN [columns |-> cols,
          values |-> [j \in 1..Len(cols) |-> IF cols[j] = name THEN cell ELSE vals[j]]]
    ELSE [columns |-> Append(cols, name), values |-> Append(vals, cell)]

InitParse ==
    /\ RecordIdle
    /\ LoadIdle
    /\ RadarIdle
    /\ parse = "file"
    /\ header \in Headers
    /\ cells \in CellRows(Len(header))
    /\ columns = <<>>
    /\ values = <<>>

ReadCsv ==
    /\ parse = "file"
    /\ columns' = read_csv_columns(header)
    /\ values' = [j \in 1..Len(cells) |-> read_csv_cell(cells[j])]
    /\ parse' = "read"
    /\ UNCHANGED <<header, cells, recordVars, loadVars, radarVars>>

RenameColumns ==
    /\ parse = "read"
    /\ columns' = Rename(columns)
    /\ parse' = "renamed"
    /\ UNCHANGED <<header, cells, values, recordVars, loadVars, radarVars>>

\* line 45, for the season the loop of line 22 is at
SetSeason ==
    /\ parse = "renamed"
    /\ \E s \in 1..Len(SeasonLabels) :
        LET res == SetColumn(columns, values, "Season", TextCell(SeasonLabels[s]))
        IN  columns' = res.columns /\ values' = res.values
    /\ parse' = "seasoned"
    /\ UNCHANGED <<header, cells, recordVars, loadVars, radarVars>>

\* lines 48-57
CoerceColumns ==
    /\ parse = "seasoned"
    /\ values' = Coerce(columns, values)
    /\ parse' = "coerced"
    /\ UNCHANGED <<header, cells, columns, recordVars, loadVars, radarVars>>

NextParse == ReadCsv \/ RenameColumns \/ SetSeason \/ CoerceColumns

SpecParse == InitParse /\ [][NextParse]_vars

(***************************************************************************)
(* load_data, lines 12-91: the loop over the configured seasons.           *)
(***************************************************************************)
MaxRows == 2

\* line 180
latest_season == "NM Spartans 12U Fall 2025"

Range(f) == {f[i] : i \in DOMAIN f}

\* row[c] of a frame whose columns are cols
FrameRow(cols, vals) ==
    [c \in Range(cols) |-> vals[CHOOSE j \in 1..Len(cols) :
                                   cols[j] = c /\ \A i \in 1..(j - 1) : cols[i] # c]]

\* line 60: First + " " + Last; a blank First is NaN and so is the sum
FullName(first, last) ==
    CASE first = "" -> ""
      [] first = "Al" /\ last = "Fox" -> "Al Fox"
      [] first = "Bo" /\ last = "Fox" -> "Bo Fox"

NotBlankFirst(r) == r["First"].txt # ""

\* a season's frame: its columns and its rows (a frame keeps its columns when
\* it has no rows)
Frame(cols, rows) == [columns |-> cols, rows |-> rows]

Failed == [ok |-> FALSE, frame |-> Frame({}, <<>>)]

\* the columns of a season's frame after lines 45-79
FrameColumns(cols) == Range(cols) \cup {"Season", "Full Name"} \cup DerivedColumns

\* lines 29-84, the body of the try for one export that exists: the frame to
\* append, or the failure that the except of line 85 receives.  A header-only
\* export makes df.apply(axis=1) return a frame instead of a column; whether the
\* assignment of line 63 then raises depends on the pandas build (emptyRaises).
ProcessFile(src, season_name, emptyRaises) ==
    IF src.kind = "garbled" THEN Failed
    ELSE
    LET cols == Rename(read_csv_columns(src.header))
        coerced == [i \in 1..Len(src.rows) |->
                       ("Season" :> season_name)
                       @@ FrameRow(cols, Coerce(cols, [j \in 1..Len(cols) |->
                                                          read_csv_cell(src.rows[i][j])]))]
    IN  IF ~({"First", "Last"} \subseteq Range(cols)) THEN Failed
        ELSE IF Len(src.rows) = 0 THEN
            (IF emptyRaises THEN Failed
             ELSE [ok |-> TRUE, frame |-> Frame(FrameColumns(cols), <<>>)])
        ELSE IF \A i \in 1..Len(coerced) : ~NotBlankFirst(coerced[i]) THEN Failed
        ELSE IF \E i \in 1..Len(coerced) : DeriveRaises(coerced[i]) THEN Failed
        ELSE
        LET derived == [i \in 1..Len(coerced) |->
                           ("Full Name" :> FullName(coerced[i]["First"].txt,
                                                    coerced[i]["Last"].txt))
                           @@ Derive(coerced[i])]
        IN  [ok |-> TRUE,
             frame |-> Frame(FrameColumns(cols), SelectSeq(derived, NotBlankFirst))]

\* the exception leaves load_data instead of being reported
ExceptReraise(errs, season_name) == [errors |-> errs, escaped |-> TRUE]

\* the exception swallowed without a report (except: pass)
ExceptSilent(errs, season_name) == [errors |-> errs, escaped |-> FALSE]

\* lines 85-86: except Exception as e: st.error(...)
Except(errs, season_name) == [errors |-> Append(errs, season_name), escaped |-> FALSE]

RECURSIVE Flatten(_)
Flatten(frames) ==
    IF frames = <<>> THEN <<>> ELSE Head(frames).rows \o Flatten(Tail(frames))

\* lines 88-91: pd.concat(combined_data, ignore_index=True), or an empty frame
ConcatFrames(frames) ==
    LET rows == Flatten(frames)
        cols == UNION {frames[f].columns : f \in 1..Len(frames)}
    IN  [i \in 1..Len(rows) |-> ConcatFill(rows[i], cols)]

(***************************************************************************)
(* The Player Analysis view, lines 326-336.                                *)
(***************************************************************************)
\* the characters of a season label after the common prefix "NM Spartans "
\* up to the first one that tells the labels apart, as character codes
LabelChars(label) ==
    CASE label = "NM Spartans 11U Fall 2024" -> <<49, 49, 85, 32, 70>>
      [] label = "NM Spartans 11U Spring 2025" -> <<49, 49, 85, 32, 83>>
      [] label = "NM Spartans 12U Fall 2025" -> <<49, 50, 85, 32, 70>>

RECURSIVE LexLess(_, _)
LexLess(a, b) ==
    IF b = <<>> THEN FALSE
    ELSE IF a = <<>> THEN TRUE
    ELSE IF Head(a) # Head(b) THEN Head(a) < Head(b)
    ELSE LexLess(Tail(a), Tail(b))

\* the order with which the labels are sorted backwards
SeasonAfter(r1, r2) == LexLess(LabelChars(r2["Season"]), LabelChars(r1["Season"]))

\* the order sort_values(by='Season') sorts with: the labels as strings
SeasonBefore(r1, r2) == LexLess(LabelChars(r1["Season"]), LabelChars(r2["Season"]))

RECURSIVE InsertSorted(_, _)
InsertSorted(sorted, r) ==
    IF sorted = <<>> THEN <<r>>
    ELSE IF SeasonBefore(r, sorted[Len(sorted)]) 
         THEN Append(InsertSorted(SubSeq(sorted, 1, Len(sorted) - 1), r), sorted[Len(sorted)])
         ELSE Append(sorted, r)

\* sort_values(by='Season'): numpy sorts so few rows by insertion, which keeps
\* rows of one season in their order
RECURSIVE sort_values(_)
sort_values(rows) ==
    IF rows = <<>> THEN <<>>
    ELSE InsertSorted(sort_values(SubSeq(rows, 1, Len(rows) - 1)), rows[Len(rows)])

NamesOf(rows) == {rows[i]["Full Name"] : i \in 1..Len(rows)}

\* lines 326-330
player_list(frame) ==
    IF \E i \in 1..Len(frame) : frame[i]["Season"] = latest_season
    THEN {frame[i]["Full Name"] : i \in {j \in 1..Len(frame) : frame[j]["Season"] = latest_season}}
    ELSE NamesOf(frame)

(***************************************************************************)
(* The exports found on disk.                                              *)
(***************************************************************************)
GoodHeader == <<"First", "Last", "PA", "SO", "E", "A", "INN", "PB">>

Without(h, name) == SelectSeq(h, LAMBDA c : c # name)

FileCell(name, first) ==
    CASE name = "First" -> TextCell(first)
      [] name = "Last" -> TextCell("Fox")
      [] name = "PA" -> NumCell(12)
      [] name = "SO" -> NumCell(3)
      [] name = "E" -> NumCell(1)
      [] name = "A" -> NumCell(9)
      [] name = "INN" -> NumCell(0)
      [] name = "PB" -> NumCell(0)

FileRow(h, first) == [j \in 1..Len(h) |-> FileCell(h[j], first)]

Csv(h, firsts) ==
    [kind |-> "csv", header |-> h, rows |-> [i \in 1..Len(firsts) |-> FileRow(h, firsts[i])]]

Absent == [kind |-> "absent", header |-> <<>>, rows |-> <<>>]
Garbled == [kind |-> "garbled", header |-> <<>>, rows |-> <<>>]

\* "" is a row without a first name (a footer or blank row of the export)
FirstNames == {"Al", "Bo", ""}

Sources ==
    {Absent, Garbled}
    \cup {Csv(GoodHeader, firsts) : firsts \in UNION {[1..n -> FirstNames] : n \in 0..MaxRows}}
    \cup {Csv(Without(GoodHeader, c), <<"Al">>) : c \in {"First", "PA", "A"}}

InitLoad ==
    /\ RecordIdle
    /\ ParseIdle
    /\ RadarIdle
    /\ load = "loop"
    /\ files = <<>>
    /\ season_i = 1
    /\ combined_data = <<>>
    /\ errors = <<>>
    /\ df = <<>>
    /\ selected_player = ""
    /\ player_stats = <<>>

\* one pass of the loop of line 22; src is what the pass finds on disk
LoadSeason ==
    /\ load = "loop"
    /\ season_i <= Len(SeasonLabels)
    /\ \E src \in Sources, emptyRaises \in BOOLEAN :
        /\ files' = Append(files, src)
        /\ IF src.kind = "absent"
           THEN /\ combined_data' = combined_data
                /\ errors' = errors
                /\ load' = load
           ELSE LET res == ProcessFile(src, SeasonLabels[season_i], emptyRaises)
                    exc == Except(errors, SeasonLabels[season_i])
                IN  IF res.ok
                    THEN /\ combined_data' = Append(combined_data, res.frame)
                         /\ errors' = errors
                         /\ load' = load
                    ELSE /\ combined_data' = combined_data
                         /\ errors' = exc.errors
                         /\ load' = IF exc.escaped THEN "crashed" ELSE load
    /\ season_i' = season_i + 1
    /\ UNCHANGED <<df, selected_player, player_stats, recordVars, parseVars, radarVars>>

\* lines 88-91
ReturnCombined ==
    /\ load = "loop"
    /\ season_i > Len(SeasonLabels)
    /\ df' = ConcatFrames(combined_data)
    /\ load' = "returned"
    /\ UNCHANGED <<files, season_i, combined_data, errors, selected_player, player_stats,
                   recordVars, parseVars, radarVars>>

\* lines 322-336: the Player Analysis view for one choice of the selectbox
PlayerAnalysis ==
    /\ load = "returned"
    /\ df # <<>>
    /\ \E p \in player_list(df) :
        /\ selected_player' = p
        /\ player_stats' = sort_values(SelectSeq(df, LAMBDA r : r["Full Name"] = p))
    /\ load' = "viewed"
    /\ UNCHANGED <<files, season_i, combined_data, errors, df, recordVars, parseVars, radarVars>>

NextLoad == LoadSeason \/ ReturnCombined \/ PlayerAnalysis

SpecLoad == InitLoad /\ [][NextLoad]_vars

(***************************************************************************)
(* The radar charts: Team Summary, lines 263-296, and Player Analysis,     *)
(* lines 369-406.                                                          *)
(***************************************************************************)
MaxTeam == 3

\* lines 263-269 and 369-375: label -> column, in the order of the dict
metrics ==
    <<[label |-> "Contact", col |-> "AVG"], [label |-> "Power", col |-> "SLG"],
      [label |-> "Discipline", col |-> "OBP"], [label |-> "Speed", col |-> "SB"],
      [label |-> "Fielding", col |-> "FPCT"]>>

\* Series.max(): the largest number of the column, NaN when it holds none
ColumnMax(rows, col) ==
    LET nums == {rows[i][col] : i \in {j \in 1..Len(rows) : IsNum(rows[j][col])}}
    IN  IF nums = {} THEN NaN ELSE CHOOSE m \in nums : \A v \in nums : Ge(m, v)

\* the division without the guard on the maximum
NormalizeUnguarded(val, m_val) == Div(val, m_val)

\* the guard written m_val >= 0
NormalizeFromZero(val, m_val) == IF Ge(m_val, QI(0)) THEN Div(val, m_val) ELSE QI(0)

\* lines 290 and 399: norm = (val / m_val) if m_val > 0 else 0
Normalize(val, m_val) == IF Gt(m_val, QI(0)) THEN Div(val, m_val) ELSE QI(0)

\* .iloc[0]
FirstRow(rows) == Head(rows)

\* lines 283-296, lines 389-406: one chart of p_data against the frame team
Chart(p_data, team) ==
    LET r_values == [m \in 1..Len(metrics) |->
                        Normalize(p_data[metrics[m].col], ColumnMax(team, metrics[m].col))]
        r_theta == [m \in 1..Len(metrics) |-> metrics[m].label]
    IN  [r_values |-> Append(r_values, r_values[1]), r_theta |-> Append(r_theta, r_theta[1])]

SeasonRows(frame, season) == SelectSeq(frame, LAMBDA r : r["Season"] = season)

\* the five columns of a row, in thousandths (SB as a count); -1 is NaN, the
\* value pd.concat gives a column that the season's export lacks
Profiles ==
    {[AVG |-> 0, SLG |-> 0, OBP |-> 0, SB |-> 3, FPCT |-> 0],
     [AVG |-> 300, SLG |-> 400, OBP |-> 350, SB |-> 0, FPCT |-> 900],
     [AVG |-> 250, SLG |-> 500, OBP |-> 350, SB |-> 0, FPCT |-> 1000]}

RadarRow(name, season, p, lacksFPCT) ==
    [k \in {"Full Name", "Season", "AVG", "SLG", "OBP", "SB", "FPCT"} |->
        CASE k = "Full Name" -> name
          [] k = "Season" -> season
          [] k = "AVG" -> Th(p.AVG)
          [] k = "SLG" -> Th(p.SLG)
          [] k = "OBP" -> Th(p.OBP)
          [] k = "SB" -> QI(p.SB)
          [] k = "FPCT" -> IF lacksFPCT THEN NaN ELSE Th(p.FPCT)]

\* the other columns of the rows of a combined frame, the same in every row:
\* a player with nothing recorded, a player on whom the rules fire, and that
\* player in frames none of whose exports has the K-L column, or the QAB% and
\* K-L columns; each is a row that lines 62-79 derive without a KeyError
OtherColumns ==
    LET quiet == MkRow(BatZero, FldZero, PitZero, CatZero)
        busy == MkRow(BatFire, FldFire, PitFire, CatFire)
        cards == [k \in {"OPS", "ERA"} |-> QI(0)]
        exports == {quiet, busy, Drop(busy, {"K-L"}), Drop(busy, {"QAB%", "K-L"})}
    IN  {Derive(x) @@ cards : x \in {y \in exports : ~DeriveRaises(y)}}

\* lines 346-349: the columns the metric cards read from latest
CardsRaise(latest) ==
    \/ ~({"AVG", "OPS", "QAB%", "IP"} \subseteq DOMAIN latest)
    \/ Gt(latest["IP"], QI(0)) /\ "ERA" \notin DOMAIN latest

RadarSeasons == {SeasonLabels[2], SeasonLabels[3]}

RadarEntries == [name : {"Al Fox", "Bo Fox"}, season : RadarSeasons, p : Profiles]

\* df is a combined frame as load_data returns it: the seasons in declared
\* order, a column that a season's export lacks NaN in all of that season's rows
InitRadar ==
    /\ RecordIdle
    /\ ParseIdle
    /\ load = "returned"
    /\ files = <<>> /\ season_i = 0 /\ combined_data = <<>> /\ errors = <<>>
    /\ \E n \in 1..MaxTeam :
        \E f \in [1..n -> RadarEntries], lacking \in {{}, {SeasonLabels[2]}, {SeasonLabels[3]}},
           other \in OtherColumns :
            /\ \A i \in 1..(n - 1) :
                   ~LexLess(LabelChars(f[i + 1].season), LabelChars(f[i].season))
            /\ df = [i \in 1..n |->
                         RadarRow(f[i].name, f[i].season, f[i].p, f[i].season \in lacking)
                         @@ other]
    /\ selected_player = ""
    /\ player_stats = <<>>
    /\ view = "none"
    /\ charts = <<>>

\* lines 188-296: Team Summary draws one chart per player of the latest season
TeamSummary ==
    /\ load = "returned" /\ view = "none"
    /\ LET season_df == SeasonRows(df, latest_season)
       IN  /\ season_df # <<>>
           /\ charts' = [player \in NamesOf(season_df) |->
                            Chart(FirstRow(SelectSeq(season_df, LAMBDA r : r["Full Name"] = player)),
                                  season_df)]
    /\ view' = "team"
    /\ UNCHANGED <<load, files, season_i, combined_data, errors, df, selected_player,
                   player_stats, recordVars, parseVars>>

\* lines 322-406: Player Analysis for one choice of the selectbox: the metric
\* cards of the latest record (lines 346-349), its feedback (line 360), then
\* one chart per season of the selected player (lines 369-406).  A KeyError
\* in the cards or in the feedback stops the script before the charts.
PlayerRadar ==
    /\ load = "returned" /\ view = "none"
    /\ \E p \in player_list(df) :
        LET stats == sort_values(SelectSeq(df, LAMBDA r : r["Full Name"] = p))
            latest == stats[Len(stats)]
            res == get_development_feedback(latest)
            drawn == [season \in {stats[i]["Season"] : i \in 1..Len(stats)} |->
                         Chart(FirstRow(SelectSeq(stats, LAMBDA r : r["Season"] = season)),
                               SeasonRows(df, season))]
        IN  /\ selected_player' = p
            /\ player_stats' = stats
            /\ IF CardsRaise(latest)
               THEN /\ UNCHANGED <<phase, row, feedback>>
                    /\ raised' = TRUE
                    /\ charts' = charts
                    /\ view' = "stopped"
               ELSE /\ phase' = "done"
                    /\ row' = latest
                    /\ feedback' = res.fb
                    /\ raised' = res.raised
                    /\ charts' = IF res.raised THEN charts ELSE drawn
                    /\ view' = IF res.raised THEN "stopped" ELSE "player"
    /\ UNCHANGED <<load, files, season_i, combined_data, errors, df, raw, others, parseVars>>

NextRadar == TeamSummary \/ PlayerRadar

SpecRadar == InitRadar /\ [][NextRadar]_vars

(***************************************************************************)
(* The two components that divide while a view is drawn: the feedback on   *)
(* one record (line 360) and the radar charts (lines 263-296, 369-406).    *)
(***************************************************************************)
InitViews == InitRecord \/ InitRadar

NextViews == NextRecord \/ NextRadar

SpecViews == InitViews /\ [][NextViews]_vars

(***************************************************************************)
(* The threshold table of the feedback engine, as the specification states *)
(* it: rule number, group requirement, guard, title.                       *)
(***************************************************************************)
RuleIds == <<1, 2, 3, 4, 5, 6, 7, 8, 9, 10, 11>>

TableTitle(i) ==
    CASE i = 1 -> "High Strikeout Rate"
      [] i = 2 -> "Quality At-Bats"
      [] i = 3 -> "Power Potential"
      [] i = 4 -> "Mental Game"
      [] i = 5 -> "Overly Cautious at the Plate"
      [] i = 6 -> "Fielding Fundamentals"
      [] i = 7 -> "Error Reduction"
      [] i = 8 -> "Pitching Control"
      [] i = 9 -> "Run Prevention"
      [] i = 10 -> "Catcher Blocking"
      [] i = 11 -> "Catcher Throwing"

TableRequirement(i, r) ==
    CASE i \in 1..5 -> Gt(Val(r, "PA"), QI(10))
      [] i \in 6..7 -> Gt(Val(r, "TC"), QI(50))
      [] i \in 8..9 -> Gt(Val(r, "IP"), QI(5))
      [] i \in 10..11 -> Gt(Val(r, "INN_Catch"), QI(5))

TableGuard(i, r) ==
    CASE i = 1 -> Gt(Div(Val(r, "SO"), Val(r, "PA")), Q(25, 100))
      [] i = 2 -> Lt(Val(r, "QAB%"), QI(40))
      [] i = 3 -> Lt(Val(r, "SLG"), Val(r, "OBP")) /\ Gt(Val(r, "AVG"), Th(250))
      [] i = 4 -> BelowAvgMinus50(Val(r, "BA/RISP"), Val(r, "AVG"))
      [] i = 5 -> Gt(Val(r, "K-L"), Mul(Val(r, "PA"), Q(7, 100)))
      [] i = 6 -> Lt(Val(r, "FPCT"), Th(850))
      [] i = 7 -> Gt(Val(r, "E%"), QI(5))
      [] i = 8 -> Gt(Val(r, "BB"), Val(r, "IP"))
      [] i = 9 -> Gt(Val(r, "WHIP"), Q(18, 10))
      [] i = 10 -> Gt(Val(r, "PB"), Mul(Val(r, "INN_Catch"), Q(2, 10)))
      [] i = 11 -> /\ Ge(Add(Get(r, "SB_Catch", QI(0)), Get(r, "CS_Catch", QI(0))), QI(5))
                   /\ Lt(Val(r, "CS%_Catch"), QI(10))

TableFires(i, r) == TableRequirement(i, r) /\ TableGuard(i, r)

RECURSIVE TableTitles(_, _)
TableTitles(i, r) ==
    IF i > Len(RuleIds) THEN <<>>
    ELSE (IF TableFires(i, r) THEN <<TableTitle(i)>> ELSE <<>>) \o TableTitles(i + 1, r)

Titles(fb) == [i \in 1..Len(fb) |-> fb[i].title]

IsFlag(e) == e.title # "On Track"

\* the columns some rule reads with row[...]
RuleColumns ==
    {"PA", "SO", "SO%", "QAB%", "SLG", "OBP", "AVG", "K-L", "TC", "FPCT", "E%",
     "IP", "BB", "WHIP", "PB", "CS%_Catch"}

Returned == phase = "done" /\ ~raised

(***************************************************************************)
(* C1: get_development_feedback returns a non-empty list; the list holds   *)
(* the "On Track" fallback exactly when no threshold rule fired, and then  *)
(* the fallback is its only entry.  Stated of every call that returns; a   *)
(* row that carries every column the rules read always returns.            *)
(***************************************************************************)
C1_NonEmptyFallbackIffNoRule ==
    /\ (phase = "done" /\ RuleColumns \subseteq DOMAIN row) => ~raised
    /\ Returned =>
        /\ Len(feedback) >= 1
        /\ (\E i \in 1..Len(feedback) : feedback[i] = OnTrack)
               <=> (\A k \in 1..Len(RuleIds) : ~TableFires(k, row))
        /\ (\E i \in 1..Len(feedback) : feedback[i] = OnTrack) => feedback = <<OnTrack>>

\* the record with PA=0, TC=0, IP=0, INN_Catch=0 got exactly the fallback
C1_Witness ==
    /\ Returned
    /\ raw = MkRow(BatZero, FldZero, PitZero, CatZero)
    /\ feedback = <<OnTrack>>

(***************************************************************************)
(* C2: the non-fallback entries are exactly the rules of the threshold     *)
(* table whose group requirement and guard both hold, one entry per rule,  *)
(* in table order (no first-match suppression).                            *)
(***************************************************************************)
C2_EntriesAreTheTableRulesInOrder ==
    Returned => Titles(SelectSeq(feedback, IsFlag)) = TableTitles(1, row)

\* rules of all four groups fired together: eleven entries
C2_Witness == Returned /\ Len(feedback) = 11 /\ feedback[11].title = "Catcher Throwing"

(***************************************************************************)
(* C3: each derived rate equals its formula when the denominator is        *)
(* positive and is exactly 0 when the denominator is 0; it is always a     *)
(* number.  rate * denominator = numerator * scale states the formula.     *)
(***************************************************************************)
RateIs(rate, num, den, scale) ==
    /\ IsNum(rate)
    /\ Gt(den, QI(0)) => Eq(Mul(rate, den), Mul(num, QI(scale)))
    /\ Eq(den, QI(0)) => rate = QI(0)

C3_DerivedRatesZeroSafe ==
    phase = "derived" =>
        /\ RateIs(row["SO%"], Get(raw, "SO", QI(0)), raw["PA"], 100)
        /\ RateIs(row["CS%_Catch"], Get(raw, "CS_Catch", QI(0)),
                  Add(Get(raw, "SB_Catch", QI(0)), Get(raw, "CS_Catch", QI(0))), 100)
        /\ RateIs(row["PBIC"], Get(raw, "PB", QI(0)), raw["INN_Catch"], 1)
        /\ RateIs(row["E%"], raw["E"],
                  Add(Add(raw["E"], Get(raw, "A", QI(0))), Get(raw, "PO", QI(0))), 100)

\* a derived row with PA = 0 (SO% = 0) whose other rates have positive denominators
C3_Witness ==
    /\ phase = "derived"
    /\ raw["PA"] = QI(0) /\ row["SO%"] = QI(0)
    /\ Gt(raw["INN_Catch"], QI(0)) /\ Gt(row["PBIC"], QI(0))
    /\ Gt(row["E%"], QI(0))

(***************************************************************************)
(* C9: with IP > 5 the pitching control entry is emitted exactly when the  *)
(* walks issued while pitching (BB_Pitch) exceed IP, whatever the batting  *)
(* walks (BB) are.                                                         *)
(***************************************************************************)
HasTitle(fb, t) == \E i \in 1..Len(fb) : fb[i].title = t

C9_ControlUsesPitchingWalks ==
    (Returned /\ "BB_Pitch" \in DOMAIN row /\ Gt(Val(row, "IP"), QI(5))) =>
        (HasTitle(feedback, "Pitching Control") <=> Gt(row["BB_Pitch"], row["IP"]))

(***************************************************************************)
(* C10: get_development_feedback never raises, also on a record that lacks *)
(* the optional columns of a rule group.                                   *)
(***************************************************************************)
C10_FeedbackNeverRaises == phase = "done" => ~raised

(***************************************************************************)
(* C4: in a header whose field names repeat, the first occurrence of BB,   *)
(* SO, H, R, SB, CS, PIK keeps its name, the second becomes the            *)
(* pitching-suffixed field, the third occurrence of SB, CS, PIK becomes    *)
(* the catching-suffixed field; no two fields of the record share a name   *)
(* and each field holds the (coerced) cell of its own column.              *)
(***************************************************************************)
PitchingField(name) ==
    CASE name = "BB" -> "BB_Pitch" [] name = "SO" -> "SO_Pitch" [] name = "H" -> "H_Pitch"
      [] name = "R" -> "R_Pitch" [] name = "SB" -> "SB_Pitch" [] name = "CS" -> "CS_Pitch"
      [] name = "PIK" -> "PIK_Pitch"

CatchingField(name) ==
    CASE name = "SB" -> "SB_Catch" [] name = "CS" -> "CS_Catch" [] name = "PIK" -> "PIK_Catch"

RepeatedNames == {"BB", "SO", "H", "R", "SB", "CS", "PIK"}

C4_OrdinalDisambiguation ==
    parse \in {"renamed", "seasoned", "coerced"} =>
        /\ \A j \in 1..Len(header) :
            /\ (header[j] \in RepeatedNames /\ Earlier(header, j) = 0)
                   => columns[j] = header[j]
            /\ (header[j] \in RepeatedNames /\ Earlier(header, j) = 1)
                   => columns[j] = PitchingField(header[j])
            /\ (header[j] \in {"SB", "CS", "PIK"} /\ Earlier(header, j) = 2)
                   => columns[j] = CatchingField(header[j])
            /\ (parse = "coerced" /\ header[j] \in RepeatedNames)
                   => values[j] = (IF cells[j].num THEN QI(cells[j].v) ELSE QI(0))
        /\ \A i, j \in 1..Len(columns) : i # j => columns[i] # columns[j]
        /\ parse # "renamed" =>
            /\ Len(columns) = Len(header) + 1
            /\ columns[Len(columns)] = "Season"
            /\ \E s \in 1..Len(SeasonLabels) :
                   values[Len(values)] = TextCell(SeasonLabels[s])

\* SB three times in the header: batting, pitching and catching fields
C4_Witness ==
    /\ parse = "coerced"
    /\ header = <<"SB", "SB", "SB">>
    /\ columns = <<"SB", "SB_Pitch", "SB_Catch", "Season">>
    /\ values = <<QI(1), QI(2), QI(3), TextCell(latest_season)>>

(***************************************************************************)
(* C5: the combined dataset holds at most one record per (player full      *)
(* name, season), whatever the exports contain.                            *)
(***************************************************************************)
C5_AtMostOneRecordPerPlayerSeason ==
    load \in {"returned", "viewed"} =>
        \A i, j \in 1..Len(df) :
            (df[i]["Full Name"] = df[j]["Full Name"] /\ df[i]["Season"] = df[j]["Season"])
                => i = j

(***************************************************************************)
(* C6: for every combination of export states (well-formed, absent,        *)
(* malformed) load_data returns, without an exception leaving it, the      *)
(* records of the well-formed seasons concatenated in the declared season  *)
(* order, each tagged with its season; an absent or malformed season       *)
(* contributes nothing and does not stop the later seasons.                *)
(***************************************************************************)
WellFormed(src) ==
    /\ src.kind = "csv"
    /\ {"First", "Last", "PA", "E", "INN"} \subseteq Range(src.header)

FirstColumn(src) == CHOOSE j \in 1..Len(src.header) : src.header[j] = "First"

PlayersOf(src, label) ==
    LET names == [i \in 1..Len(src.rows) |-> src.rows[i][FirstColumn(src)].txt]
        kept == SelectSeq(names, LAMBDA n : n # "")
    IN  [i \in 1..Len(kept) |-> <<label, kept[i]>>]

RECURSIVE ExpectedRecords(_, _)
ExpectedRecords(fs, s) ==
    IF s > Len(fs) THEN <<>>
    ELSE (IF WellFormed(fs[s]) THEN PlayersOf(fs[s], SeasonLabels[s]) ELSE <<>>)
         \o ExpectedRecords(fs, s + 1)

C6_LoadDegradesGracefully ==
    /\ load # "crashed"
    /\ load = "returned" =>
        [i \in 1..Len(df) |-> <<df[i]["Season"], df[i]["First"].txt>>]
            = ExpectedRecords(files, 1)

\* first season absent, second malformed, third loaded with both of its players
C6_Witness ==
    /\ load = "returned"
    /\ files[1].kind = "absent"
    /\ files[2].kind = "garbled"
    /\ Len(files[3].rows) = 2
    /\ Len(errors) = 1
    /\ Len(df) = 2
    /\ df[1]["Season"] = latest_season /\ df[2]["Season"] = latest_season

(***************************************************************************)
(* C7: the history of the selected player is in season-declaration order,  *)
(* holds exactly the player's records, and ends with a record of the       *)
(* latest declared season the player appears in.                           *)
(***************************************************************************)
Declared(label) == CHOOSE s \in 1..Len(SeasonLabels) : SeasonLabels[s] = label

C7_HistoryInDeclarationOrder ==
    load = "viewed" =>
        LET mine == SelectSeq(df, LAMBDA r : r["Full Name"] = selected_player)
        IN  /\ Len(player_stats) = Len(mine) /\ Len(mine) >= 1
            /\ \A s \in 1..Len(SeasonLabels) :
                Cardinality({i \in 1..Len(mine) : mine[i]["Season"] = SeasonLabels[s]})
                    = Cardinality({i \in 1..Len(player_stats) :
                                      /\ player_stats[i]["Season"] = SeasonLabels[s]
                                      /\ player_stats[i]["Full Name"] = selected_player})
            /\ \A i, j \in 1..Len(player_stats) :
                i < j => Declared(player_stats[i]["Season"]) <= Declared(player_stats[j]["Season"])
            /\ \A i \in 1..Len(mine) :
                Declared(mine[i]["Season"])
                    <= Declared(player_stats[Len(player_stats)]["Season"])

\* a player with a record in each of the three seasons
C7_Witness ==
    /\ load = "viewed"
    /\ Len(player_stats) = 3
    /\ \A s \in 1..3 : player_stats[s]["Season"] = SeasonLabels[s]

(***************************************************************************)
(* C8: for a subject of the reference group (the team's records of the     *)
(* chart's season) the five values, in the order Contact (AVG), Power      *)
(* (SLG), Discipline (OBP), Speed (SB), Fielding (FPCT), are the subject's *)
(* value divided by the group maximum and lie in [0,1]; a metric whose     *)
(* group maximum is 0 is normalized to 0, a number.                        *)
(***************************************************************************)
ChartSeason(key) == IF view = "team" THEN latest_season ELSE key
ChartPlayer(key) == IF view = "team" THEN key ELSE selected_player

NormalizedAgainstGroup(norm, val, group, col) ==
    /\ IsNum(norm) /\ Ge(norm, QI(0)) /\ Ge(QI(1), norm)
    /\ \A g \in 1..Len(group) :
        (IsNum(group[g][col]) /\ \A h \in 1..Len(group) : Ge(group[g][col], group[h][col]))
            => /\ Gt(group[g][col], QI(0)) => Eq(Mul(norm, group[g][col]), val)
               /\ Eq(group[g][col], QI(0)) => norm = QI(0)

C8_RadarValuesInUnitRange ==
    view \in {"team", "player"} =>
        \A key \in DOMAIN charts :
            LET group == SeasonRows(df, ChartSeason(key))
                subject == Head(SelectSeq(group, LAMBDA r : r["Full Name"] = ChartPlayer(key)))
            IN  /\ SubSeq(charts[key].r_theta, 1, 5)
                       = <<"Contact", "Power", "Discipline", "Speed", "Fielding">>
                /\ \A m \in 1..5 :
                    NormalizedAgainstGroup(charts[key].r_values[m],
                                           subject[metrics[m].col], group, metrics[m].col)

\* a team chart with a value strictly between 0 and 1, a value of 1 and a metric
\* whose team maximum is 0
C8_Witness ==
    /\ view = "team"
    /\ \E key \in DOMAIN charts :
        /\ Gt(charts[key].r_values[1], QI(0)) /\ Gt(QI(1), charts[key].r_values[1])
        /\ charts[key].r_values[5] = QI(1)
        /\ charts[key].r_values[4] = QI(0)
        /\ ColumnMax(SeasonRows(df, latest_season), "SB") = QI(0)

(***************************************************************************)
(* C11: the record PA=50, SO=20, QAB%=20, SLG=.300, OBP=.350, AVG=.260,    *)
(* BA/RISP=.150, K-L=5 with IP=0, TC=0 and no catching innings gets        *)
(* exactly five entries, in the order high strikeout rate, quality         *)
(* at-bats, power potential, mental game, strikeouts looking, and no       *)
(* fallback entry.                                                         *)
(***************************************************************************)
IsStrugglingHitter(x) ==
    /\ {"PA", "SO", "QAB%", "SLG", "OBP", "AVG", "BA/RISP", "K-L", "IP", "TC",
        "INN_Catch"} \subseteq DOMAIN x
    /\ x["PA"] = QI(50) /\ x["SO"] = QI(20) /\ x["QAB%"] = QI(20)
    /\ x["SLG"] = Th(300) /\ x["OBP"] = Th(350) /\ x["AVG"] = Th(260)
    /\ x["BA/RISP"] = Th(150) /\ x["K-L"] = QI(5)
    /\ x["IP"] = QI(0) /\ x["TC"] = QI(0) /\ x["INN_Catch"] = QI(0)

C11_StrugglingHitterGetsFiveEntries ==
    (phase = "done" /\ IsStrugglingHitter(raw)) =>
        /\ ~raised
        /\ Titles(feedback)
               = <<"High Strikeout Rate", "Quality At-Bats", "Power Potential",
                   "Mental Game", "Overly Cautious at the Plate">>

\* that record after the call, its strikeout rate derived as 40 percent
C11_Witness ==
    /\ phase = "done"
    /\ IsStrugglingHitter(raw)
    /\ row["SO%"] = QI(40)
    /\ Len(feedback) = 5

(***************************************************************************)
(* C12: a record with PA=11, SO=3, QAB%=40, SLG=OBP, AVG=.260, K-L=0,      *)
(* BA/RISP not below AVG-0.050, IP=0, TC=0 and INN_Catch=0.                *)
(***************************************************************************)
IsBoundaryHitter(x) ==
    /\ {"PA", "SO", "QAB%", "SLG", "OBP", "AVG", "K-L", "IP", "TC", "INN_Catch"}
           \subseteq DOMAIN x
    /\ x["PA"] = QI(11) /\ x["SO"] = QI(3) /\ x["QAB%"] = QI(40)
    /\ x["SLG"] = x["OBP"] /\ x["AVG"] = Th(260) /\ x["K-L"] = QI(0)
    /\ x["IP"] = QI(0) /\ x["TC"] = QI(0) /\ x["INN_Catch"] = QI(0)

\* C12 as stated: with BA/RISP absent or at least AVG - 0.050 no flag rule
\* fires on that record and its feedback is the 'On Track' entry alone
C12_BoundaryHitterOnTrack ==
    (/\ phase = "done"
     /\ IsBoundaryHitter(raw)
     /\ "BA/RISP" \in DOMAIN raw => Ge(raw["BA/RISP"], Sub(raw["AVG"], Th(50)))) =>
        /\ ~raised
        /\ feedback = <<OnTrack>>

\* C12 as amended: with BA/RISP absent or strictly above AVG - 0.050 the
\* feedback of that record is the high strikeout rate entry alone (3/11 is
\* above 25 percent); QAB%=40 and SLG=OBP fire nothing and there is no
\* 'On Track' entry
C12_BoundaryHitterOnlyStrikeoutFlag ==
    (/\ phase = "done"
     /\ IsBoundaryHitter(raw)
     /\ "BA/RISP" \in DOMAIN raw => Gt(raw["BA/RISP"], Sub(raw["AVG"], Th(50)))) =>
        /\ ~raised
        /\ Titles(feedback) = <<"High Strikeout Rate">>

\* that record after the call, BA/RISP one thousandth above AVG - 0.050 and
\* the derived strikeout rate between 27 and 28 percent
C12_Witness ==
    /\ phase = "done"
    /\ IsBoundaryHitter(raw)
    /\ "BA/RISP" \in DOMAIN raw /\ raw["BA/RISP"] = Th(211)
    /\ Gt(row["SO%"], QI(27)) /\ Lt(row["SO%"], QI(28))
    /\ Len(feedback) = 1

(***************************************************************************)
(* C13: the diagnostics load_data surfaces (st.error, line 86), season by  *)
(* season, against the state of the season's source.                       *)
(***************************************************************************)
SourceMissing(s) == files[s].kind = "absent"

SourceMalformed(s) == files[s].kind # "absent" /\ ~WellFormed(files[s])

LoadedSuccessfully(s) ==
    WellFormed(files[s]) /\ PlayersOf(files[s], SeasonLabels[s]) # <<>>

Diagnosed(s) == SeasonLabels[s] \in Range(errors)

\* C13 as stated: every season whose source is absent or present but
\* unparseable has a diagnostic, and no season that loaded has one
C13_DiagnosticForMissingAndMalformed ==
    \A s \in 1..Len(files) :
        /\ (SourceMissing(s) \/ SourceMalformed(s)) => Diagnosed(s)
        /\ LoadedSuccessfully(s) => ~Diagnosed(s)

\* C13 as amended: every season whose source is present but unparseable has
\* a diagnostic; a season whose source is absent is skipped without one, and
\* no season that loaded has one
C13_DiagnosticForMalformedOnly ==
    \A s \in 1..Len(files) :
        /\ SourceMalformed(s) => Diagnosed(s)
        /\ SourceMissing(s) => ~Diagnosed(s)
        /\ LoadedSuccessfully(s) => ~Diagnosed(s)

\* load_data has returned: the first season loaded, the second export lacks
\* a column the parser needs, the third is absent; one diagnostic, for the
\* second season
C13_Witness ==
    /\ load = "returned"
    /\ Len(files) = 3
    /\ LoadedSuccessfully(1)
    /\ files[2].kind = "csv" /\ SourceMalformed(2)
    /\ SourceMissing(3)
    /\ errors = <<SeasonLabels[2]>>
    /\ Len(df) >= 1

(***************************************************************************)
(* C14: every division the feedback engine and the radar normalization     *)
(* evaluate has a strictly positive denominator: SO/PA and K-L/PA only     *)
(* with PA > 10, BB/IP only with IP > 5, value/max only with max > 0, and  *)
(* each quotient times its denominator gives back the numerator.           *)
(***************************************************************************)
IsQuotient(q, num, den, floor) == Gt(den, floor) /\ Eq(Mul(q, den), num)

FeedbackDivisionsGuarded ==
    phase = "done" =>
        \A i \in 1..Len(feedback) :
            /\ feedback[i].title = "High Strikeout Rate" =>
                   IsQuotient(feedback[i].vals[1], row["SO"], row["PA"], QI(10))
            /\ feedback[i].title = "Overly Cautious at the Plate" =>
                   IsQuotient(feedback[i].vals[1], row["K-L"], row["PA"], QI(10))
            /\ feedback[i].title = "Pitching Control" =>
                   IsQuotient(feedback[i].vals[1], row["BB"], row["IP"], QI(5))

RadarDivisionsGuarded ==
    view \in {"team", "player"} =>
        \A key \in DOMAIN charts :
            LET group == SeasonRows(df, ChartSeason(key))
                subject == Head(SelectSeq(group, LAMBDA r : r["Full Name"] = ChartPlayer(key)))
            IN  \A m \in 1..Len(metrics) :
                    LET max_val == ColumnMax(group, metrics[m].col)
                        val == subject[metrics[m].col]
                    IN  IF Gt(max_val, QI(0))
                        THEN IsNum(val) => IsQuotient(charts[key].r_values[m], val, max_val, QI(0))
                        ELSE charts[key].r_values[m] = QI(0)

C14_DivisionsHavePositiveDenominators ==
    FeedbackDivisionsGuarded /\ RadarDivisionsGuarded

\* a record whose feedback holds the three entries that divide
C14_Witness ==
    /\ phase = "done"
    /\ HasTitle(feedback, "High Strikeout Rate")
    /\ HasTitle(feedback, "Overly Cautious at the Plate")
    /\ HasTitle(feedback, "Pitching Control")
    /\ Gt(row["PA"], QI(10)) /\ Gt(row["IP"], QI(5))

====
